---------------------------- MODULE Spec2Model ----------------------------
(***************************************************************************)
(* Model of the s-expression package (final revision, src/sexp.go lines    *)
(* 683-1333): the character classifier, the recursive-descent parser over  *)
(* an io.RuneScanner, the builder functions and the encoder Node.String.   *)
(*                                                                         *)
(* Characters are runes, modelled as their code points (integers); a text  *)
(* is a sequence of runes and an octet string a sequence of bytes 0..255.  *)
(* Every parse function is an operator that takes the scanner state and    *)
(* returns its results together with the scanner state it leaves behind.   *)
(* A run-time panic of the Go program (index out of range inside the       *)
(* standard decoders) is the outcome PanicIndex: it propagates like an     *)
(* error through every caller and is never a returned error value.         *)
(***************************************************************************)
EXTENDS Integers, Sequences, FiniteSets, TLC

(***************************************************************************)
(* Runes the source names as literals.                                     *)
(***************************************************************************)
MaxASCII == 127
chSpace == 32
chTab == 9
chLF == 10
chVT == 11
chFF == 12
chCR == 13
chLParen == 40
chRParen == 41
chHash == 35
chPipe == 124
chPad == 61
ch0 == 48
ch9 == 57
chUpA == 65
chUpF == 70
chUpZ == 90
chLoA == 97
chLoF == 102
chLoZ == 122

(***************************************************************************)
(* Kinds, nodes and errors.                                                *)
(***************************************************************************)
KindList == "KindList"
KindToken == "KindToken"
KindHexadecimal == "KindHexadecimal"
KindBase64 == "KindBase64"

\* a nil *Node
NilNode == [Kind |-> "nil", OctetString |-> << >>, List |-> << >>]

Node(kind, octets, list) == [Kind |-> kind, OctetString |-> octets, List |-> list]

NoErr == "nil"
EOF == "io.EOF"
ErrUnexpectedEOF == "io.ErrUnexpectedEOF"
ErrNotASCII == "ErrNotASCII"
ErrParseUnacceptableWhitespace == "ErrParseUnacceptableWhitespace"
ErrUnexpectedChar == "ErrUnexpectedChar"
ErrInvalidLengthPrefix == "ErrInvalidLengthPrefix"
ErrInvalidTokenChar == "ErrInvalidTokenChar"
\* errors of the standard library the parser passes through
ErrHexLength == "hex.ErrLength"
ErrBase64Corrupt == "base64.CorruptInputError"
ErrUnreadRune == "UnreadRune: previous operation was not ReadRune"
\* a run-time panic (index out of range): not an error value
PanicIndex == "panic: index out of range"

\* the two encodings: the value is the DisallowNewlines field
LimitedEncoding == TRUE
FullEncoding == FALSE

(***************************************************************************)
(* Classifier.                                                             *)
(***************************************************************************)
isAlpha(r) == (r >= chUpA /\ r <= chUpZ) \/ (r >= chLoA /\ r <= chLoZ)

isDigit(r) == r >= ch0 /\ r <= ch9

\* - . / _ : * + =
isGraphic(r) == r \in {45, 46, 47, 95, 58, 42, 43, 61}

isTokenStart(r) == isAlpha(r) \/ isGraphic(r)

isTokenRemainder(r) == isAlpha(r) \/ isDigit(r) \/ isGraphic(r)

isHexadecimalRemainder(r) ==
    \/ (r >= ch0 /\ r <= ch9)
    \/ (r >= chUpA /\ r <= chUpF)
    \/ (r >= chLoA /\ r <= chLoF)

\* '+' is 43 and '/' is 47
isBase64Remainder(r) ==
    \/ (r >= ch0 /\ r <= ch9)
    \/ (r >= chUpA /\ r <= chUpZ)
    \/ (r >= chLoA /\ r <= chLoZ)
    \/ r = 43 \/ r = 47

\* a faulty shouldDiscard, to which the newline property C9 must be
\* sensitive: the permissive mode no longer discards CR and LF
shouldDiscardKeepsNewline(e, r) ==
    IF r > MaxASCII THEN [discard |-> FALSE, err |-> ErrNotASCII]
    ELSE IF r = chCR \/ r = chLF
         THEN IF e THEN [discard |-> FALSE, err |-> ErrParseUnacceptableWhitespace]
                   ELSE [discard |-> FALSE, err |-> NoErr]
    ELSE IF r <= chSpace \/ r = chTab \/ r = chVT \/ r = chFF
         THEN [discard |-> TRUE, err |-> NoErr]
    ELSE [discard |-> FALSE, err |-> NoErr]

\* a faulty shouldDiscard, to which the mode property C29 must be
\* sensitive: the strict mode rejects a tab as well
shouldDiscardStrictTab(e, r) ==
    IF r > MaxASCII THEN [discard |-> FALSE, err |-> ErrNotASCII]
    ELSE IF r = chCR \/ r = chLF \/ (r = chTab /\ e)
         THEN IF e THEN [discard |-> FALSE, err |-> ErrParseUnacceptableWhitespace]
                   ELSE [discard |-> TRUE, err |-> NoErr]
    ELSE IF r <= chSpace \/ r = chTab \/ r = chVT \/ r = chFF
         THEN [discard |-> TRUE, err |-> NoErr]
    ELSE [discard |-> FALSE, err |-> NoErr]

shouldDiscard(e, r) ==
    IF r > MaxASCII THEN [discard |-> FALSE, err |-> ErrNotASCII]
    ELSE IF r = chCR \/ r = chLF
         THEN IF e THEN [discard |-> FALSE, err |-> ErrParseUnacceptableWhitespace]
                   ELSE [discard |-> TRUE, err |-> NoErr]
    ELSE IF r <= chSpace \/ r = chTab \/ r = chVT \/ r = chFF
         THEN [discard |-> TRUE, err |-> NoErr]
    ELSE [discard |-> FALSE, err |-> NoErr]

(***************************************************************************)
(* The io.RuneScanner the parser reads (strings.Reader in the tests): the  *)
(* text, the number of runes consumed, and whether the previous operation  *)
(* was a successful ReadRune (only then may UnreadRune step back).         *)
(***************************************************************************)
NewReader(text) == [in |-> text, pos |-> 0, prev |-> FALSE]

ReadRune(s) ==
    IF s.pos >= Len(s.in)
    THEN [r |-> 0, err |-> EOF, s |-> [s EXCEPT !.prev = FALSE]]
    ELSE [r |-> s.in[s.pos + 1], err |-> NoErr,
          s |-> [s EXCEPT !.pos = @ + 1, !.prev = TRUE]]

UnreadRune(s) ==
    IF ~s.prev
    THEN [err |-> ErrUnreadRune, s |-> s]
    ELSE [err |-> NoErr, s |-> [s EXCEPT !.pos = @ - 1, !.prev = FALSE]]

(***************************************************************************)
(* encoding/hex and encoding/base64 (StdEncoding, padded), as the parser   *)
(* and the encoder call them.                                              *)
(***************************************************************************)
\* value of a hex digit
fromHexChar(c) ==
    IF c >= ch0 /\ c <= ch9 THEN c - ch0
    ELSE IF c >= chLoA /\ c <= chLoF THEN c - chLoA + 10
    ELSE c - chUpA + 10

\* the lower-case hex digit of a nibble ("0123456789abcdef")
\* a faulty hexDigit, to which the canonical hex form C16 must be sensitive:
\* the digits above 9 are written in upper case
hexDigitUpper(v) == IF v < 10 THEN ch0 + v ELSE chUpA + (v - 10)

hexDigit(v) == IF v < 10 THEN ch0 + v ELSE chLoA + (v - 10)

RECURSIVE hexPairs(_)
hexPairs(src) ==
    IF Len(src) < 2 THEN << >>
    ELSE << fromHexChar(src[1]) * 16 + fromHexChar(src[2]) >>
            \o hexPairs(SubSeq(src, 3, Len(src)))

\* hex.Decode(dst, src) with len(dst) = dstLen and src made of hex digits:
\* each pair is written to dst[i] (a panic when i reaches len(dst)); an odd
\* length is ErrLength, reported after the pairs were written.
hexDecode(dstLen, src) ==
    LET pairs == Len(src) \div 2 IN
    IF pairs > dstLen THEN [dn |-> dstLen, err |-> PanicIndex, dst |-> << >>]
    ELSE IF Len(src) % 2 = 1 THEN [dn |-> pairs, err |-> ErrHexLength, dst |-> hexPairs(src)]
    ELSE [dn |-> pairs, err |-> NoErr, dst |-> hexPairs(src)]

\* hex.DecodedLen
hexDecodedLen(n) == n \div 2

RECURSIVE hexEncode(_)
hexEncode(octets) ==
    IF octets = << >> THEN << >>
    ELSE << hexDigit(octets[1] \div 16), hexDigit(octets[1] % 16) >>
            \o hexEncode(Tail(octets))

\* value of a base64 digit in the standard alphabet
fromBase64Char(c) ==
    IF c >= chUpA /\ c <= chUpZ THEN c - chUpA
    ELSE IF c >= chLoA /\ c <= chLoZ THEN c - chLoA + 26
    ELSE IF c >= ch0 /\ c <= ch9 THEN c - ch0 + 52
    ELSE IF c = 43 THEN 62
    ELSE 63

base64Digit(v) ==
    IF v < 26 THEN chUpA + v
    ELSE IF v < 52 THEN chLoA + (v - 26)
    ELSE IF v < 62 THEN ch0 + (v - 52)
    ELSE IF v = 62 THEN 43
    ELSE 47

\* the three bytes of one quantum of four digits
base64Quantum(q) ==
    LET v == fromBase64Char(q[1]) * 262144 + fromBase64Char(q[2]) * 4096
             + fromBase64Char(q[3]) * 64 + fromBase64Char(q[4])
    IN << v \div 65536, (v \div 256) % 256, v % 256 >>

RECURSIVE base64Quanta(_)
base64Quanta(src) ==
    IF Len(src) < 4 THEN << >>
    ELSE base64Quantum(SubSeq(src, 1, 4)) \o base64Quanta(SubSeq(src, 5, Len(src)))

\* base64.StdEncoding.DecodedLen
base64DecodedLen(n) == (n \div 4) * 3

\* base64.StdEncoding.Decode(dst, src) with len(dst) = dstLen and src made of
\* digits of the alphabet (no padding reaches it): the quanta are decoded in
\* order, each needing three bytes of room in dst (a panic without it); digits
\* left over after the last whole quantum are a CorruptInputError.
base64Decode(dstLen, src) ==
    LET quanta == Len(src) \div 4 IN
    IF quanta * 3 > dstLen THEN [dn |-> 0, err |-> PanicIndex, dst |-> << >>]
    ELSE IF Len(src) % 4 # 0
         THEN [dn |-> quanta * 3, err |-> ErrBase64Corrupt, dst |-> base64Quanta(src)]
    ELSE [dn |-> quanta * 3, err |-> NoErr, dst |-> base64Quanta(src)]

\* base64.NewEncoder(base64.StdEncoding, sb): Write then Close
RECURSIVE base64Encode(_)
base64Encode(octets) ==
    IF octets = << >> THEN << >>
    ELSE IF Len(octets) = 1
         THEN << base64Digit(octets[1] \div 4), base64Digit((octets[1] % 4) * 16),
                 chPad, chPad >>
    ELSE IF Len(octets) = 2
         THEN LET v == octets[1] * 65536 + octets[2] * 256 IN
              << base64Digit(v \div 262144), base64Digit((v \div 4096) % 64),
                 base64Digit((v \div 64) % 64), chPad >>
    ELSE LET v == octets[1] * 65536 + octets[2] * 256 + octets[3] IN
         << base64Digit(v \div 262144), base64Digit((v \div 4096) % 64),
            base64Digit((v \div 64) % 64), base64Digit(v % 64) >>
         \o base64Encode(SubSeq(octets, 4, Len(octets)))

(***************************************************************************)
(* The parser.  Every parse function returns the node, the end-of-list     *)
(* signal, the error and the scanner as it leaves it.  A function's code   *)
(* after one of its calls is an operator of its own that takes the call's  *)
(* result: parseTokenRead is the body of parseToken's loop after ReadRune, *)
(* parseTokenEnd its code after the loop, and so on.                       *)
(***************************************************************************)
Ret(n, listEnd, err, s) == [n |-> n, listEnd |-> listEnd, err |-> err, s |-> s]

\* strconv.ParseUint(digits, 10, 64); the texts of this model are far shorter
\* than the twenty digits that overflow 64 bits
RECURSIVE ParseUint(_)
ParseUint(digits) ==
    IF digits = << >> THEN 0
    ELSE ParseUint(SubSeq(digits, 1, Len(digits) - 1)) * 10
         + (digits[Len(digits)] - ch0)

RECURSIVE parseDecimalLoop(_, _)

\* parseDecimal after the push back of the first rune that is no digit
parseDecimalEnd(un, sb) ==
    IF un.err # NoErr THEN [v |-> 0, err |-> un.err, s |-> un.s]
    ELSE [v |-> ParseUint(sb), err |-> NoErr, s |-> un.s]

\* one turn of parseDecimal's loop after ReadRune: end of input is returned
\* as the scanner's io.EOF
parseDecimalRead(rd, sb) ==
    IF rd.err # NoErr THEN [v |-> 0, err |-> rd.err, s |-> rd.s]
    ELSE IF ~isDigit(rd.r) THEN parseDecimalEnd(UnreadRune(rd.s), sb)
    ELSE parseDecimalLoop(rd.s, Append(sb, rd.r))

parseDecimalLoop(s, sb) == parseDecimalRead(ReadRune(s), sb)

parseDecimal(e, s) == parseDecimalLoop(s, << >>)

RECURSIVE parseTokenLoop(_, _)

\* one turn of parseToken's loop after ReadRune: it ends at end of input
\* (eof) or at the first rune that is no token character (consumed here)
\* a faulty parseTokenRead, to which the token property C10 must be
\* sensitive: the rune that ends the token is taken into the token
parseTokenReadTakesDelimiter(rd, sb) ==
    IF rd.err = EOF THEN [sb |-> sb, eof |-> TRUE, s |-> rd.s]
    ELSE IF ~isTokenRemainder(rd.r)
         THEN [sb |-> Append(sb, rd.r), eof |-> FALSE, s |-> rd.s]
    ELSE parseTokenLoop(rd.s, Append(sb, rd.r))

parseTokenRead(rd, sb) ==
    IF rd.err = EOF THEN [sb |-> sb, eof |-> TRUE, s |-> rd.s]
    ELSE IF ~isTokenRemainder(rd.r) THEN [sb |-> sb, eof |-> FALSE, s |-> rd.s]
    ELSE parseTokenLoop(rd.s, Append(sb, rd.r))

parseTokenLoop(s, sb) == parseTokenRead(ReadRune(s), sb)

\* parseToken after the push back of the rune that ended the loop
parseTokenUnread(un, sb) ==
    IF un.err # NoErr THEN Ret(NilNode, FALSE, un.err, un.s)
    ELSE Ret(Node(KindToken, sb, << >>), FALSE, NoErr, un.s)

\* a faulty parseTokenEnd, to which the pushback property C21 must be
\* sensitive: the rune that ended the token is not pushed back
parseTokenEndKeepsDelimiter(lp) ==
    Ret(Node(KindToken, lp.sb, << >>), FALSE,
        IF lp.eof THEN EOF ELSE NoErr, lp.s)

\* a faulty parseTokenEnd, to which the pushback protocol C23 must be
\* sensitive: a rune is pushed back after the read that met the end of the
\* input as well
parseTokenEndUnreadsAtEOF(lp) == parseTokenUnread(UnreadRune(lp.s), lp.sb)

\* a faulty parseTokenEnd, to which the progress property C30 must be
\* sensitive: at the end of the input the scanner is left where the token
\* started
parseTokenEndRewindsAtEOF(lp) ==
    IF lp.eof
    THEN Ret(Node(KindToken, lp.sb, << >>), FALSE, EOF,
             [lp.s EXCEPT !.pos = @ - Len(lp.sb)])
    ELSE parseTokenUnread(UnreadRune(lp.s), lp.sb)

\* parseToken after its loop: at end of input the token is returned with io.EOF
parseTokenEnd(lp) ==
    IF lp.eof THEN Ret(Node(KindToken, lp.sb, << >>), FALSE, EOF, lp.s)
    ELSE parseTokenUnread(UnreadRune(lp.s), lp.sb)

parseToken(e, s) == parseTokenEnd(parseTokenLoop(s, << >>))

RECURSIVE parseHexadecimalLoop(_, _, _)

\* a faulty parseHexadecimalRead, to which the whitespace property C17 must
\* be sensitive: whitespace inside the body is not skipped
parseHexadecimalReadKeepsSpace(e, rd, sb) ==
    IF rd.err = EOF THEN [sb |-> sb, eof |-> TRUE, err |-> NoErr, s |-> rd.s]
    ELSE LET sd == shouldDiscard(e, rd.r) IN
         IF sd.err # NoErr THEN [sb |-> sb, eof |-> FALSE, err |-> sd.err, s |-> rd.s]
         ELSE IF rd.r = chHash THEN [sb |-> sb, eof |-> FALSE, err |-> NoErr, s |-> rd.s]
         ELSE IF ~isHexadecimalRemainder(rd.r)
              THEN [sb |-> sb, eof |-> FALSE, err |-> ErrUnexpectedChar, s |-> rd.s]
         ELSE parseHexadecimalLoop(e, rd.s, Append(sb, rd.r))

\* one turn of parseHexadecimal's loop after ReadRune: discardable runes are
\* skipped, hex digits collected; it ends at end of input (eof), at '#'
\* (consumed), or on an error
parseHexadecimalRead(e, rd, sb) ==
    IF rd.err = EOF THEN [sb |-> sb, eof |-> TRUE, err |-> NoErr, s |-> rd.s]
    ELSE LET sd == shouldDiscard(e, rd.r) IN
         IF sd.err # NoErr THEN [sb |-> sb, eof |-> FALSE, err |-> sd.err, s |-> rd.s]
         ELSE IF sd.discard THEN parseHexadecimalLoop(e, rd.s, sb)
         ELSE IF rd.r = chHash THEN [sb |-> sb, eof |-> FALSE, err |-> NoErr, s |-> rd.s]
         ELSE IF ~isHexadecimalRemainder(rd.r)
              THEN [sb |-> sb, eof |-> FALSE, err |-> ErrUnexpectedChar, s |-> rd.s]
         ELSE parseHexadecimalLoop(e, rd.s, Append(sb, rd.r))

parseHexadecimalLoop(e, s, sb) == parseHexadecimalRead(e, ReadRune(s), sb)

\* parseHexadecimal after hex.Decode: d is what Decode returned, dstLen is len(dst)
parseHexadecimalNode(d, dstLen, hasDecimal, s) ==
    IF d.err # NoErr THEN Ret(NilNode, FALSE, d.err, s)
    ELSE IF hasDecimal /\ d.dn # dstLen
         THEN Ret(NilNode, FALSE, ErrInvalidLengthPrefix, s)
    ELSE Ret(Node(KindHexadecimal, d.dst, << >>), FALSE, NoErr, s)

\* len(dst): the length prefix when there is one
hexDstLen(sb, decimal, hasDecimal) ==
    IF hasDecimal THEN decimal ELSE hexDecodedLen(Len(sb))

\* parseHexadecimal after the push back of the terminating '#'
parseHexadecimalDecode(un, sb, decimal, hasDecimal) ==
    IF un.err # NoErr THEN Ret(NilNode, FALSE, un.err, un.s)
    ELSE parseHexadecimalNode(hexDecode(hexDstLen(sb, decimal, hasDecimal), sb),
                              hexDstLen(sb, decimal, hasDecimal), hasDecimal, un.s)

\* parseHexadecimal after its loop: the rune that ended it, the terminating
\* '#', is pushed back
parseHexadecimalEnd(lp, decimal, hasDecimal) ==
    IF lp.err # NoErr THEN Ret(NilNode, FALSE, lp.err, lp.s)
    ELSE IF lp.eof THEN Ret(NilNode, FALSE, ErrUnexpectedEOF, lp.s)
    ELSE parseHexadecimalDecode(UnreadRune(lp.s), lp.sb, decimal, hasDecimal)

parseHexadecimal(e, s, decimal, hasDecimal) ==
    parseHexadecimalEnd(parseHexadecimalLoop(e, s, << >>), decimal, hasDecimal)

RECURSIVE parseBase64Loop(_, _, _)

parseBase64Read(e, rd, sb) ==
    IF rd.err = EOF THEN [sb |-> sb, eof |-> TRUE, err |-> NoErr, s |-> rd.s]
    ELSE LET sd == shouldDiscard(e, rd.r) IN
         IF sd.err # NoErr THEN [sb |-> sb, eof |-> FALSE, err |-> sd.err, s |-> rd.s]
         ELSE IF sd.discard THEN parseBase64Loop(e, rd.s, sb)
         ELSE IF rd.r = chPipe THEN [sb |-> sb, eof |-> FALSE, err |-> NoErr, s |-> rd.s]
         ELSE IF ~isBase64Remainder(rd.r)
              THEN [sb |-> sb, eof |-> FALSE, err |-> ErrUnexpectedChar, s |-> rd.s]
         ELSE parseBase64Loop(e, rd.s, Append(sb, rd.r))

parseBase64Loop(e, s, sb) == parseBase64Read(e, ReadRune(s), sb)

parseBase64Node(d, dstLen, hasDecimal, s) ==
    IF d.err # NoErr THEN Ret(NilNode, FALSE, d.err, s)
    ELSE IF hasDecimal /\ d.dn # dstLen
         THEN Ret(NilNode, FALSE, ErrInvalidLengthPrefix, s)
    ELSE Ret(Node(KindBase64, d.dst, << >>), FALSE, NoErr, s)

base64DstLen(sb, decimal, hasDecimal) ==
    IF hasDecimal THEN decimal ELSE base64DecodedLen(Len(sb))

parseBase64Decode(un, sb, decimal, hasDecimal) ==
    IF un.err # NoErr THEN Ret(NilNode, FALSE, un.err, un.s)
    ELSE parseBase64Node(base64Decode(base64DstLen(sb, decimal, hasDecimal), sb),
                         base64DstLen(sb, decimal, hasDecimal), hasDecimal, un.s)

parseBase64End(lp, decimal, hasDecimal) ==
    IF lp.err # NoErr THEN Ret(NilNode, FALSE, lp.err, lp.s)
    ELSE IF lp.eof THEN Ret(NilNode, FALSE, ErrUnexpectedEOF, lp.s)
    ELSE parseBase64Decode(UnreadRune(lp.s), lp.sb, decimal, hasDecimal)

parseBase64(e, s, decimal, hasDecimal) ==
    parseBase64End(parseBase64Loop(e, s, << >>), decimal, hasDecimal)

RECURSIVE parseNode(_, _)
RECURSIVE parseListLoop(_, _, _)

\* the deferred function of parseList
deferEOF(err) == IF err = EOF THEN ErrUnexpectedEOF ELSE err

\* a faulty parseListChild, to which the list order property C24 must be
\* sensitive: a child is put before the children read so far
parseListChildPrepends(e, child, list) ==
    IF child.err # NoErr THEN Ret(NilNode, FALSE, deferEOF(child.err), child.s)
    ELSE IF child.listEnd THEN Ret(Node(KindList, << >>, list), FALSE, NoErr, child.s)
    ELSE parseListLoop(e, child.s, << child.n >> \o list)

\* parseList after parseNode returned a child: a child's error returns nil
parseListChild(e, child, list) ==
    IF child.err # NoErr THEN Ret(NilNode, FALSE, deferEOF(child.err), child.s)
    ELSE IF child.listEnd THEN Ret(Node(KindList, << >>, list), FALSE, NoErr, child.s)
    ELSE parseListLoop(e, child.s, Append(list, child.n))

\* parseList after the push back of the rune that starts a child
parseListUnread(e, un, list) ==
    IF un.err # NoErr
    THEN Ret(Node(KindList, << >>, list), FALSE, deferEOF(un.err), un.s)
    ELSE parseListChild(e, parseNode(e, un.s), list)

\* a faulty parseListRead, to which the round trip C28 must be sensitive:
\* the rune that starts a child is not pushed back
parseListReadNoUnread(e, rd, list) ==
    IF rd.err # NoErr
    THEN Ret(Node(KindList, << >>, list), FALSE, deferEOF(rd.err), rd.s)
    ELSE LET sd == shouldDiscard(e, rd.r) IN
         IF sd.err # NoErr
         THEN Ret(Node(KindList, << >>, list), FALSE, deferEOF(sd.err), rd.s)
         ELSE IF sd.discard THEN parseListLoop(e, rd.s, list)
         ELSE parseListChild(e, parseNode(e, rd.s), list)

\* one turn of parseList's loop after ReadRune; list holds the children
\* appended so far.  A return on the list's own read, discard or unread error
\* leaves n the list built so far.
parseListRead(e, rd, list) ==
    IF rd.err # NoErr
    THEN Ret(Node(KindList, << >>, list), FALSE, deferEOF(rd.err), rd.s)
    ELSE LET sd == shouldDiscard(e, rd.r) IN
         IF sd.err # NoErr
         THEN Ret(Node(KindList, << >>, list), FALSE, deferEOF(sd.err), rd.s)
         ELSE IF sd.discard THEN parseListLoop(e, rd.s, list)
         ELSE parseListUnread(e, UnreadRune(rd.s), list)

parseListLoop(e, s, list) == parseListRead(e, ReadRune(s), list)

parseList(e, s) == parseListLoop(e, s, << >>)

\* parseNode once the optional length prefix is read: r is the rune that
\* must open a string
parseString(e, s, r, decimal, hasDecimal) ==
    IF r = chPipe THEN parseBase64(e, s, decimal, hasDecimal)
    ELSE IF r = chHash THEN parseHexadecimal(e, s, decimal, hasDecimal)
    ELSE Ret(NilNode, FALSE, ErrUnexpectedChar, s)

\* parseNode after the push back of a token's first rune
parseNodeToken(e, un) ==
    IF un.err # NoErr THEN Ret(NilNode, FALSE, un.err, un.s)
    ELSE parseToken(e, un.s)

\* a faulty parseNodeOpen, to which the length prefix property C22 must be
\* sensitive: one space between the prefix and the string is skipped
parseNodeOpenSkipsSpace(e, rd, decimal) ==
    IF rd.err # NoErr THEN Ret(NilNode, FALSE, rd.err, rd.s)
    ELSE IF rd.r = chSpace
         THEN parseString(e, ReadRune(rd.s).s, ReadRune(rd.s).r, decimal, TRUE)
    ELSE parseString(e, rd.s, rd.r, decimal, TRUE)

\* parseNode after the rune that follows the length prefix is read
parseNodeOpen(e, rd, decimal) ==
    IF rd.err # NoErr THEN Ret(NilNode, FALSE, rd.err, rd.s)
    ELSE parseString(e, rd.s, rd.r, decimal, TRUE)

\* parseNode after parseDecimal returned the length prefix
parseNodePrefix(e, dec) ==
    IF dec.err # NoErr THEN Ret(NilNode, FALSE, dec.err, dec.s)
    ELSE parseNodeOpen(e, ReadRune(dec.s), dec.v)

\* parseNode after the push back of the first digit of a length prefix
parseNodeDecimal(e, un) ==
    IF un.err # NoErr THEN Ret(NilNode, FALSE, un.err, un.s)
    ELSE parseNodePrefix(e, parseDecimal(e, un.s))

\* a faulty parseNodeRead, to which the token validity property C25 must be
\* sensitive: a digit starts a token as well
parseNodeReadDigitTokens(e, rd) ==
    IF rd.err # NoErr THEN Ret(NilNode, FALSE, rd.err, rd.s)
    ELSE LET sd == shouldDiscard(e, rd.r) IN
         IF sd.err # NoErr THEN Ret(NilNode, FALSE, sd.err, rd.s)
         ELSE IF sd.discard THEN parseNode(e, rd.s)
         ELSE IF rd.r = chRParen THEN Ret(NilNode, TRUE, NoErr, rd.s)
         ELSE IF rd.r = chLParen THEN parseList(e, rd.s)
         ELSE IF isTokenRemainder(rd.r) THEN parseNodeToken(e, UnreadRune(rd.s))
         ELSE parseString(e, rd.s, rd.r, 0, FALSE)

\* one turn of parseNode's loop after ReadRune
parseNodeRead(e, rd) ==
    IF rd.err # NoErr THEN Ret(NilNode, FALSE, rd.err, rd.s)
    ELSE LET sd == shouldDiscard(e, rd.r) IN
         IF sd.err # NoErr THEN Ret(NilNode, FALSE, sd.err, rd.s)
         ELSE IF sd.discard THEN parseNode(e, rd.s)
         ELSE IF rd.r = chRParen THEN Ret(NilNode, TRUE, NoErr, rd.s)
         ELSE IF rd.r = chLParen THEN parseList(e, rd.s)
         ELSE IF isTokenStart(rd.r) THEN parseNodeToken(e, UnreadRune(rd.s))
         ELSE IF rd.r >= ch0 /\ rd.r <= ch9 THEN parseNodeDecimal(e, UnreadRune(rd.s))
         ELSE parseString(e, rd.s, rd.r, 0, FALSE)

parseNode(e, s) == parseNodeRead(e, ReadRune(s))

\* a faulty parseResult, to which the end-of-input property C12 must be
\* sensitive: io.EOF is not cleared
parseResultKeepsEOF(r) ==
    LET err1 == IF r.listEnd THEN ErrUnexpectedChar ELSE r.err
    IN  [n |-> IF err1 # NoErr THEN NilNode ELSE r.n, err |-> err1, s |-> r.s]

\* a faulty parseResult, to which the no-partial-result property C13 must be
\* sensitive: the node is not cleared on an error
parseResultKeepsNode(r) ==
    LET err1 == IF r.listEnd THEN ErrUnexpectedChar ELSE r.err
        err2 == IF err1 = EOF THEN NoErr ELSE err1
    IN  [n |-> r.n, err |-> err2, s |-> r.s]

\* a faulty parseResult, to which the trailing ')' property C19 must be
\* sensitive: a ')' at the outer scope is not an error
parseResultIgnoresListEnd(r) ==
    LET err2 == IF r.err = EOF THEN NoErr ELSE r.err
    IN  [n |-> IF err2 # NoErr THEN NilNode ELSE r.n, err |-> err2, s |-> r.s]

\* Parse after parseNode returned
parseResult(r) ==
    LET err1 == IF r.listEnd THEN ErrUnexpectedChar ELSE r.err
        err2 == IF err1 = EOF THEN NoErr ELSE err1
    IN  [n |-> IF err2 # NoErr THEN NilNode ELSE r.n, err |-> err2, s |-> r.s]

\* encoding.Parse: the result a caller sees, and the scanner afterwards
Parse(e, s) == parseResult(parseNode(e, s))

(***************************************************************************)
(* The builder functions and the encoder.                                  *)
(***************************************************************************)
\* Token(s): every rune of s is checked; the empty string passes the loop
Token(str) ==
    IF \E i \in 1..Len(str) :
          \/ (i = 1 /\ ~isTokenStart(str[i]))
          \/ (i > 1 /\ ~isTokenRemainder(str[i]))
    THEN [n |-> NilNode, err |-> ErrInvalidTokenChar]
    ELSE [n |-> Node(KindToken, str, << >>), err |-> NoErr]

\* MustToken after Token returned: it panics with Token's error
mustTokenResult(tk) == [n |-> tk.n, panic |-> tk.err]

MustToken(str) == mustTokenResult(Token(str))

Hexadecimal(octets) == Node(KindHexadecimal, octets, << >>)

Base64(octets) == Node(KindBase64, octets, << >>)

List(children) == Node(KindList, << >>, children)

RECURSIVE appendToBuilder(_)
RECURSIVE appendChildren(_)

\* a faulty appendChildren, to which the canonical list form C15 must be
\* sensitive: a space is written after every child, the last included
appendChildrenTrailingSpace(list) ==
    IF list = << >> THEN << >>
    ELSE appendToBuilder(list[1]) \o << chSpace >> \o appendChildren(Tail(list))

\* the loop over n.List: one space between children, none after the last
appendChildren(list) ==
    IF list = << >> THEN << >>
    ELSE appendToBuilder(list[1])
         \o (IF Len(list) > 1 THEN << chSpace >> ELSE << >>)
         \o appendChildren(Tail(list))

\* a faulty appendToBuilder, to which the line-safe output C20 must be
\* sensitive: the octets of a hex-string are written as they are
appendToBuilderVerbatim(n) ==
    IF n = NilNode THEN << >>
    ELSE IF n.Kind = KindList
         THEN << chLParen >> \o appendChildren(n.List) \o << chRParen >>
    ELSE IF n.Kind = KindToken THEN n.OctetString
    ELSE IF n.Kind = KindHexadecimal
         THEN << chHash >> \o n.OctetString \o << chHash >>
    ELSE IF n.Kind = KindBase64
         THEN << chPipe >> \o base64Encode(n.OctetString) \o << chPipe >>
    ELSE << >>

appendToBuilder(n) ==
    IF n = NilNode THEN << >>
    ELSE IF n.Kind = KindList
         THEN << chLParen >> \o appendChildren(n.List) \o << chRParen >>
    ELSE IF n.Kind = KindToken THEN n.OctetString
    ELSE IF n.Kind = KindHexadecimal
         THEN << chHash >> \o hexEncode(n.OctetString) \o << chHash >>
    ELSE IF n.Kind = KindBase64
         THEN << chPipe >> \o base64Encode(n.OctetString) \o << chPipe >>
    ELSE << >>

\* Node.String: writes to a strings.Builder never fail
String(n) == appendToBuilder(n)

(***************************************************************************)
(* The Lua decoder (lua/sexp.lua, sexp_decode and the functions it calls). *)
(* A Lua string is its sequence of bytes, indexed from 1.  A node is the   *)
(* table the decoder builds: [token |-> bytes], [hex |-> bytes] or         *)
(* [list |-> tables]; LuaNil is the value nil.  An error table is the      *)
(* string of its err field, and "nil" is the absent error.                 *)
(***************************************************************************)
LuaNil == [nil |-> TRUE]

is_space(r) == r <= chSpace \/ r = chTab \/ r = chVT \/ r = chFF

is_alpha(r) == (r >= chUpA /\ r <= chUpZ) \/ (r >= chLoA /\ r <= chLoZ)

is_digit(r) == r >= ch0 /\ r <= ch9

\* - . / _ : * + =
is_graphic(r) == r \in {45, 46, 47, 95, 58, 42, 43, 61}

is_token_start(r) == is_alpha(r) \/ is_graphic(r)

is_token_remainder(r) == is_alpha(r) \/ is_digit(r) \/ is_graphic(r)

\* parse_token's loop: start and last bound the token, i is the index read
RECURSIVE parse_token_loop(_, _, _, _)
parse_token_loop(str, start, last, i) ==
    IF i > Len(str)
    THEN [n |-> [token |-> SubSeq(str, start, last)], i |-> i, err |-> "eof"]
    ELSE IF str[i] > 128
         THEN [n |-> [token |-> SubSeq(str, start, last)], i |-> i,
               err |-> "not ascii"]
    ELSE IF str[i] = chCR \/ str[i] = chLF
         THEN [n |-> [token |-> SubSeq(str, start, last)], i |-> i,
               err |-> "newlines not allowed"]
    ELSE IF is_token_remainder(str[i])
         THEN parse_token_loop(str, start, i, i + 1)
    ELSE [n |-> [token |-> SubSeq(str, start, last)], i |-> i, err |-> "nil"]

parse_token(str, i) == parse_token_loop(str, i, i, i)

\* hexmap[r], or -1 for nil
hexmap(r) ==
    IF r >= ch0 /\ r <= ch9 THEN r - ch0
    ELSE IF r >= chLoA /\ r <= chLoF THEN r - chLoA + 10
    ELSE IF r >= chUpA /\ r <= chUpF THEN r - chUpA + 10
    ELSE -1

\* parse_hex's loop: c holds the bytes so far, and half tells that the last
\* of them has its high digit only (e = 1)
RECURSIVE parse_hex_loop(_, _, _, _)
parse_hex_loop(str, i, c, half) ==
    IF i > Len(str) THEN [n |-> [hex |-> c], i |-> i, err |-> "eof"]
    ELSE IF str[i] > 128 THEN [n |-> [hex |-> c], i |-> i, err |-> "not ascii"]
    ELSE IF str[i] = chCR \/ str[i] = chLF
         THEN [n |-> [hex |-> c], i |-> i, err |-> "newlines not allowed"]
    ELSE IF is_space(str[i]) THEN parse_hex_loop(str, i + 1, c, half)
    ELSE IF str[i] = chHash THEN [n |-> [hex |-> c], i |-> i + 1, err |-> "nil"]
    ELSE IF hexmap(str[i]) # -1
         THEN IF half
              THEN parse_hex_loop(str, i + 1,
                       [c EXCEPT ![Len(c)] = @ + hexmap(str[i])], FALSE)
              ELSE parse_hex_loop(str, i + 1,
                       Append(c, hexmap(str[i]) * 16), TRUE)
    ELSE [n |-> [hex |-> c], i |-> i + 1, err |-> "unexpected character"]

parse_hex(str, i) == parse_hex_loop(str, i, << >>, FALSE)

RECURSIVE parse_node(_, _)
RECURSIVE parse_list_loop(_, _, _)

\* parse_list after parse_node returned a child
parse_list_child(str, child, list) ==
    IF child.err # "nil" THEN [n |-> [list |-> list], i |-> child.i, err |-> child.err]
    ELSE IF child.eol THEN [n |-> [list |-> list], i |-> child.i, err |-> "nil"]
    ELSE parse_list_loop(str, child.i, Append(list, child.n))

\* parse_list's loop: list holds the children so far
parse_list_loop(str, i, list) ==
    IF i > Len(str) THEN [n |-> [list |-> list], i |-> i, err |-> "eof"]
    ELSE IF str[i] > 128
         THEN [n |-> [list |-> list], i |-> i, err |-> "not ascii"]
    ELSE IF str[i] = chCR \/ str[i] = chLF
         THEN [n |-> [list |-> list], i |-> i, err |-> "newlines not allowed"]
    ELSE parse_list_child(str, parse_node(str, i), list)

parse_list(str, i) == parse_list_loop(str, i, << >>)

\* what parse_node returns of a list, hex-string or token: n, i, false, err
parse_node_of(r) == [n |-> r.n, i |-> r.i, eol |-> FALSE, err |-> r.err]

parse_node(str, i) ==
    IF i > Len(str) THEN [n |-> LuaNil, i |-> i, eol |-> FALSE, err |-> "eof"]
    ELSE IF str[i] > 128
         THEN [n |-> LuaNil, i |-> i, eol |-> FALSE, err |-> "not ascii"]
    ELSE IF str[i] = chCR \/ str[i] = chLF
         THEN [n |-> LuaNil, i |-> i, eol |-> FALSE,
               err |-> "newlines not allowed"]
    ELSE IF is_space(str[i]) THEN parse_node(str, i + 1)
    ELSE IF str[i] = chRParen
         THEN [n |-> LuaNil, i |-> i + 1, eol |-> TRUE, err |-> "nil"]
    ELSE IF str[i] = chLParen THEN parse_node_of(parse_list(str, i + 1))
    ELSE IF str[i] = chHash THEN parse_node_of(parse_hex(str, i + 1))
    ELSE IF is_token_start(str[i]) THEN parse_node_of(parse_token(str, i))
    ELSE [n |-> LuaNil, i |-> i + 1, eol |-> FALSE,
          err |-> "unexpected character"]

\* sexp_decode after parse_node returned
sexp_decode_result(r) ==
    IF r.eol THEN [n |-> r.n, i |-> r.i, err |-> "unexpected end of list"]
    ELSE [n |-> r.n, i |-> r.i, err |-> r.err]

\* sexp_decode(s) for a string s
sexp_decode(str) == sexp_decode_result(parse_node(str, 1))

\* the table that TestLuaDecoder expects for a node: expectToken, expectHex
\* and expectList
RECURSIVE expectTable(_)
expectTable(n) ==
    IF n.Kind = KindToken THEN [token |-> n.OctetString]
    ELSE IF n.Kind = KindHexadecimal THEN [hex |-> n.OctetString]
    ELSE [list |-> [i \in 1..Len(n.List) |-> expectTable(n.List[i])]]

(***************************************************************************)
(* Bounds of the model and the inputs drawn within them.                   *)
(***************************************************************************)
\* longest text drawn rune by rune from Alphabet
MaxLen == 4
\* most children of a built list
MaxChildren == 2
\* longest octet string given to Hexadecimal and Base64
MaxOctets == 3
\* largest length prefix written before a string
MaxHint == 4
\* most Parse calls on one scanner, and most nodes encoded into one text
MaxCalls == 2
\* longest string offered to Token and MustToken rune by rune
MaxTokenLen == 2
\* longest octet string written as a hex-string by hand
MaxHexOctets == 2
\* most whitespace runes put at one place of a hex-string
MaxGap == 2

\* ( ) a space LF # |
Alphabet == {chLParen, chRParen, chLoA, chSpace, chLF, chHash, chPipe}

SeqsUpTo(S, k) == UNION {[1..m -> S] : m \in 0..k}

\* inputs of TestParse and TestParseMulti that the alphabet does not reach,
\* and the like of them with CR and LF
SampleTexts ==
    { << 40, 32, 97, 45, 49, 42, 98, 43, 99, 58, 100, 61, 101, 47, 102, 95,
         103, 46, 104, 9, 11, 12, 32, 41 >>,             \* ( a-1*b+c:d=e/f_g.h\t\v\f )
      << 35, 54, 49, 32, 54, 32, 50, 54, 32, 51, 32, 35 >>,  \* #61 6 26 3 #
      << 35, 54, 49, 10, 54, 50, 32, 54, 51, 32, 35 >>,      \* #61\n62 63 #
      << 35, 54, 49, 124, 89, 121, 87, 106 >>,               \* #61|YyWj
      << 124, 89, 87, 74, 32, 106, 124 >>,                   \* |YWJ j|
      << 124, 89, 87, 106, 35, 54, 49 >>,                    \* |YWj#61
      << 40, 97, 98, 99, 32, 40, 100, 101, 102, 32, 103, 104, 105, 32,
         122, 47, 97, 41, 41 >>,                         \* (abc (def ghi z/a))
      << 40, 40, 41, 32, 40, 41, 32, 40, 41, 32, 40, 32, 40, 41, 32, 40, 41,
         32, 41, 41 >>,                                  \* (() () () ( () () ))
      << 40, 97, 32, 98, 41, 99, 32, 100, 35, 54, 49, 54, 50, 35 >>,  \* (a b)c d#6162#
      << 97, 98, 99, 13 >>,                                  \* abc\r
      << 40, 97, 98, 99, 13, 10, 100, 41 >>,                 \* (abc\r\nd)
      << 35, 54, 49, 13, 54, 50, 35 >>,                      \* #61\r62#
      << 124, 89, 87, 10, 74, 106, 124 >>,                   \* |YW\nJj|
      << 51, 35, 54, 49, 10, 54, 50, 54, 51, 35 >>,          \* 3#61\n6263#
      << 9, 11, 12, 32, 0 >>,                                \* \t\v\f space NUL
      << 9, 40, 11, 41, 12 >> }                              \* \t(\v)\f

Texts == SeqsUpTo(Alphabet, MaxLen) \cup SampleTexts

\* strings offered to Token: "", a, z1, 1a, a b
TokenStrings == { << >>, << 97 >>, << 122, 49 >>, << 49, 97 >>, << 97, 32, 98 >> }

\* the token nodes the builder returns
Tokens == {Token(x).n : x \in {y \in TokenStrings : Token(y).err = NoErr}}

\* octets: LF, CR, 'a', 0xff
Octets == {10, 13, 97, 255}

Payloads == SeqsUpTo(Octets, MaxOctets)

StringAtoms == {Hexadecimal(p) : p \in Payloads} \cup {Base64(p) : p \in Payloads}

\* children of built lists: non-empty tokens, strings of "", "a" and "abc",
\* the empty list and a list of one token
Elements ==
    {n \in Tokens : n.OctetString # << >>}
    \cup {Hexadecimal(p) : p \in {<< >>, << 97 >>, << 97, 98, 99 >>}}
    \cup {Base64(p) : p \in {<< >>, << 97 >>, << 97, 98, 99 >>}}
    \cup {List(<< >>), List(<< Node(KindToken, << 97 >>, << >>) >>)}

Lists == {List(c) : c \in SeqsUpTo(Elements, MaxChildren)}

\* trees built through Token, Hexadecimal, Base64 and List
Trees == Tokens \cup StringAtoms \cup Lists \cup {List(<< l >>) : l \in Lists}

\* the nodes encoded into one text: one tree, or several elements
NodeSeqs ==
    {<< n >> : n \in Trees}
    \cup {ns \in SeqsUpTo(Elements, MaxCalls) : Len(ns) >= 2}

\* strings offered to the token builder, of the runes a 1 - space LF and
\* U+00E9
BuilderRunes == {chLoA, 49, 45, chSpace, chLF, 233}

BuilderStrings == SeqsUpTo(BuilderRunes, MaxTokenLen) \cup TokenStrings

\* a rune put into an encoding: U+00E9 (not ASCII) or a ')'
InsertRunes == {233, chRParen}

\* the trees a rune is put into: the tokens, the children of built lists,
\* and the lists of a token, a hex-string, a base64-string and the empty list
InsertElements ==
    {Node(KindToken, << 97 >>, << >>), Hexadecimal(<< 97 >>),
     Base64(<< 97, 98, 99 >>), List(<< >>)}

InsertBases ==
    Tokens \cup Elements \cup {List(c) : c \in SeqsUpTo(InsertElements, MaxChildren)}

Inserted(text, i, c) == SubSeq(text, 1, i) \o << c >> \o SubSeq(text, i + 1, Len(text))

\* hex-strings written by hand: the octets 0x0a and 0xff, digits in lower,
\* upper or mixed case, discardable whitespace at up to two places
HexPayloads == SeqsUpTo({10, 255}, MaxHexOctets)

HexStyles == {"lower", "upper", "mixed"}

\* NUL, tab, space
HexWhitespace == {0, chTab, chSpace}

ToUpper(c) == IF c >= chLoA /\ c <= chLoZ THEN c - (chLoA - chUpA) ELSE c

Styled(digits, style) ==
    [i \in 1..Len(digits) |->
        IF style = "upper" \/ (style = "mixed" /\ i % 2 = 1)
        THEN ToUpper(digits[i]) ELSE digits[i]]

\* k times the rune w
Pad(k, w) == [i \in 1..k |-> w]

\* the digits with k runes w put before the digits number i + 1 and j + 1
\* (after the last digit for Len(digits))
RECURSIVE Spaced(_, _, _, _, _, _)
Spaced(digits, at, i, j, k, w) ==
    (IF at = i \/ at = j THEN Pad(k, w) ELSE << >>)
    \o (IF at >= Len(digits) THEN << >>
        ELSE << digits[at + 1] >> \o Spaced(digits, at + 1, i, j, k, w))

\* strconv.FormatUint(h, 10)
RECURSIVE FormatUint(_)
FormatUint(h) ==
    IF h < 10 THEN << ch0 + h >>
    ELSE FormatUint(h \div 10) \o << ch0 + (h % 10) >>

\* decimal digits at the start of a node: 0, 1, 12
PrefixDigits == { << ch0 >>, << 49 >>, << 49, 50 >> }

\* runes put after the digits that open no string: a - space tab LF ( )
\* and U+00E9
PrefixFollowers == {chLoA, 45, chSpace, chTab, chLF, chLParen, chRParen, 233}

\* what stands before the digits: nothing, a space, "(", "(a "
PrefixLeads ==
    { << >>, << chSpace >>, << chLParen >>, << chLParen, chLoA, chSpace >> }

\* what stands behind the rune after the digits: nothing, #61#, |YQ|, ")"
PrefixRests ==
    { << >>, << chHash, 54, 49, chHash >>, << chPipe, 89, 81, chPipe >>,
      << chRParen >> }

\* lists of non-empty tokens and lists, written with the same number of
\* whitespace runes at every place where whitespace may stand
TokenTrees ==
    {n \in Lists \cup {List(<< l >>) : l \in Lists} :
        \A i \in 1..Len(n.List) :
            \/ n.List[i].Kind = KindToken
            \/ /\ n.List[i].Kind = KindList
               /\ \A j \in 1..Len(n.List[i].List) :
                     n.List[i].List[j].Kind \in {KindToken, KindList}}

\* tab, space, LF (which only the permissive mode discards)
LooseWhitespace == {chTab, chSpace, chLF}

\* the text of a tree of tokens and lists with k runes w after every '(',
\* before every ')' and between two children; two tokens in a row are kept
\* apart by one rune w when k is 0
RECURSIVE Loose(_, _, _)
RECURSIVE LooseChildren(_, _, _)
LooseChildren(list, k, w) ==
    IF list = << >> THEN << >>
    ELSE Loose(list[1], k, w)
         \o (IF Len(list) = 1 THEN << >>
             ELSE IF k = 0 /\ list[1].Kind = KindToken /\ list[2].Kind = KindToken
                  THEN << w >>
             ELSE Pad(k, w))
         \o LooseChildren(Tail(list), k, w)

Loose(n, k, w) ==
    IF n.Kind = KindToken THEN n.OctetString
    ELSE << chLParen >> \o Pad(k, w) \o LooseChildren(n.List, k, w)
         \o Pad(k, w) \o << chRParen >>

\* the encodings of the nodes, one space between them
RECURSIVE JoinStrings(_)
JoinStrings(ns) ==
    IF ns = << >> THEN << >>
    ELSE String(ns[1])
         \o (IF Len(ns) > 1 THEN << chSpace >> ELSE << >>)
         \o JoinStrings(Tail(ns))

(***************************************************************************)
(* The state machine: a caller makes a scanner over a text, then calls     *)
(* Parse on it until it returns an error or no node.                       *)
(***************************************************************************)
VARIABLES
    e,          \* the encoding the caller parses with (its DisallowNewlines)
    s,          \* the scanner
    src,        \* how the text was made: kind, the nodes encoded, length prefix
    results,    \* what the Parse calls so far returned: n, err and the cursor
    built,      \* what a call of a builder function returned, and its argument
    pc          \* "new" before the scanner is made, "ready" after, "built"
                \* after a call of the token builder, "held" after a call
                \* of Hexadecimal, Base64 or List, "written" after the
                \* caller's write to the slice it gave them

vars == << e, s, src, results, built, pc >>

Built(fn, arg, n, err, panic) ==
    [fn |-> fn, arg |-> arg, n |-> n, err |-> err, panic |-> panic]

Source(kind, nodes, hint) == [kind |-> kind, nodes |-> nodes, hint |-> hint]

Init ==
    /\ e \in {LimitedEncoding, FullEncoding}
    /\ s = NewReader(<< >>)
    /\ src = Source("none", << >>, -1)
    /\ results = << >>
    /\ built = Built("none", << >>, NilNode, NoErr, NoErr)
    /\ pc = "new"

Load(text, source) ==
    /\ s' = NewReader(text)
    /\ src' = source
    /\ pc' = "ready"
    /\ UNCHANGED << e, results, built >>

\* strings.NewReader(text) over a text written by hand
ReadText ==
    /\ pc = "new"
    /\ \E text \in Texts : Load(text, Source("text", << >>, -1))

\* strings.NewReader over n.String() of built nodes
ReadString ==
    /\ pc = "new"
    /\ \E ns \in NodeSeqs : Load(JoinStrings(ns), Source("string", ns, -1))

\* strings.NewReader over a length prefix followed by a string's encoding
ReadPrefixed ==
    /\ pc = "new"
    /\ \E h \in 0..MaxHint, n \in StringAtoms :
          Load(FormatUint(h) \o String(n), Source("prefixed", << n >>, h))

\* strings.NewReader over an encoding that stops short of its end
ReadTruncated ==
    /\ pc = "new"
    /\ \E n \in Trees \ Tokens, h \in {-1} \cup 0..MaxHint :
          /\ h >= 0 => (n \in StringAtoms /\ h = Len(n.OctetString))
          /\ LET text == (IF h >= 0 THEN FormatUint(h) ELSE << >>) \o String(n) IN
             \E k \in 1..(Len(text) - 1) :
                Load(SubSeq(text, 1, k), Source("truncated", << n >>, h))

\* the caller keeps what Parse returned; the scanner is left where Parse left it
Returned(r) ==
    /\ s' = r.s
    /\ results' = Append(results, [n |-> r.n, err |-> r.err, pos |-> r.s.pos])

\* one call of Parse; a caller stops at the first error or absent node
DoParse ==
    /\ pc = "ready"
    /\ Len(results) < MaxCalls
    /\ results # << >> =>
          /\ results[Len(results)].err = NoErr
          /\ results[Len(results)].n # NilNode
    /\ Returned(Parse(e, s))
    /\ UNCHANGED << e, src, built, pc >>

\* strings.NewReader over an encoding with one more rune put in at place i
ReadInserted ==
    /\ pc = "new"
    /\ \E n \in InsertBases, c \in InsertRunes :
          \E i \in 0..Len(String(n)) :
             Load(Inserted(String(n), i, c), Source("inserted", << n >>, i))

\* strings.NewReader over a hex-string written by hand, with or without its
\* length prefix
ReadHexadecimal ==
    /\ pc = "new"
    /\ \E p \in HexPayloads, style \in HexStyles, w \in HexWhitespace,
          k \in 0..MaxGap, withPrefix \in BOOLEAN :
          \E i \in 0..(2 * Len(p)) :
             \E j \in i..(2 * Len(p)) :
                Load((IF withPrefix THEN FormatUint(Len(p)) ELSE << >>)
                        \o << chHash >>
                        \o Spaced(Styled(hexEncode(p), style), 0, i, j, k, w)
                        \o << chHash >>,
                     Source("hex", << Hexadecimal(p) >>,
                            IF withPrefix THEN Len(p) ELSE -1))

\* strings.NewReader over decimal digits followed by a rune that is neither
\* a digit nor '#' nor '|'; hint is the number of runes before that rune
ReadDigits ==
    /\ pc = "new"
    /\ \E lead \in PrefixLeads, digits \in PrefixDigits,
          c \in PrefixFollowers, rest \in PrefixRests :
          Load(lead \o digits \o << c >> \o rest,
               Source("digits", << >>, Len(lead) + Len(digits)))

\* strings.NewReader over a list of tokens and lists written with k
\* whitespace runes at every place; hint is k
ReadLoose ==
    /\ pc = "new"
    /\ \E n \in TokenTrees, k \in 0..MaxGap, w \in LooseWhitespace :
          /\ w = chLF => e = FullEncoding
          /\ Load(Pad(k, w) \o Loose(n, k, w), Source("loose", << n >>, k))

\* the builder returned
Returns(b) ==
    /\ built' = b
    /\ pc' = "built"
    /\ UNCHANGED << e, s, src, results >>

\* e.Token(str)
CallToken ==
    /\ pc = "new"
    /\ \E str \in BuilderStrings :
          Returns(Built("Token", str, Token(str).n, Token(str).err, NoErr))

\* e.MustToken(str)
CallMustToken ==
    /\ pc = "new"
    /\ \E str \in BuilderStrings :
          Returns(Built("MustToken", str, MustToken(str).n, NoErr, MustToken(str).panic))

\* the node a builder function returns over the slice it was given: the
\* node's field is that slice itself, not a copy of it
nodeOver(fn, slice) ==
    IF fn = "Hexadecimal" THEN Hexadecimal(slice)
    ELSE IF fn = "Base64" THEN Base64(slice)
    ELSE List(slice)

\* the builder returned a node that holds the caller's slice; src keeps the
\* node as it was returned
Holds(fn, slice) ==
    /\ built' = Built(fn, slice, nodeOver(fn, slice), NoErr, NoErr)
    /\ src' = Source("built", << nodeOver(fn, slice) >>, -1)
    /\ pc' = "held"
    /\ UNCHANGED << e, s, results >>

\* e.Hexadecimal(s) with a slice s of the caller
CallHexadecimal ==
    /\ pc = "new"
    /\ \E p \in HexPayloads : Holds("Hexadecimal", p)

\* e.Base64(s) with a slice s of the caller
CallBase64 ==
    /\ pc = "new"
    /\ \E p \in HexPayloads : Holds("Base64", p)

\* e.List(children...) with a slice children of the caller
CallList ==
    /\ pc = "new"
    /\ \E c \in SeqsUpTo(InsertElements, MaxChildren) : Holds("List", c)

\* the caller writes one element of the slice it gave to the builder; the
\* node holds the same slice, so the write shows in the node
WriteSlice ==
    /\ pc = "held"
    /\ \E i \in 1..Len(built.arg) :
          \E v \in (IF built.fn = "List" THEN InsertElements ELSE Octets) :
             /\ v # built.arg[i]
             /\ built' = Built(built.fn, [built.arg EXCEPT ![i] = v],
                               nodeOver(built.fn, [built.arg EXCEPT ![i] = v]),
                               NoErr, NoErr)
    /\ pc' = "written"
    /\ UNCHANGED << e, s, src, results >>

Next ==
    \/ ReadText \/ ReadString \/ ReadPrefixed \/ ReadTruncated
    \/ ReadInserted \/ ReadHexadecimal
    \/ ReadDigits \/ ReadLoose
    \/ CallToken \/ CallMustToken
    \/ CallHexadecimal \/ CallBase64 \/ CallList \/ WriteSlice
    \/ DoParse

Spec == Init /\ [][Next]_vars

(***************************************************************************)
(* Vocabulary of the properties.                                           *)
(***************************************************************************)
\* Parse was called at least once; First is what the first call returned
Called == Len(results) >= 1

First == results[1]

\* the text the scanner reads
Text == s.in

Newlines == {chCR, chLF}

HasNewline(text) == \E i \in 1..Len(text) : text[i] \in Newlines

\* the text without its CR and LF
Removed(text) == SelectSeq(text, LAMBDA c : c \notin Newlines)

\* the text with a space in place of every CR and LF
Replaced(text) == [i \in 1..Len(text) |-> IF text[i] \in Newlines THEN chSpace ELSE text[i]]

\* index of the first CR or LF of a text that has one
FirstNewline(text) ==
    CHOOSE i \in 1..Len(text) :
        text[i] \in Newlines /\ \A j \in 1..(i - 1) : text[j] \notin Newlines

\* a tree of non-empty tokens and lists only
RECURSIVE TokensOnly(_)
TokensOnly(n) ==
    \/ n.Kind = KindToken /\ n.OctetString # << >>
    \/ n.Kind = KindList /\ \A i \in 1..Len(n.List) : TokensOnly(n.List[i])

IsHex(n) == n.Kind = KindHexadecimal

\* a base64 node whose encoding needs no '=' padding
IsPlainBase64(n) == n.Kind = KindBase64 /\ Len(n.OctetString) % 3 = 0

\* what strict Parse returns for a text read from its start
StrictParse(text) == Parse(LimitedEncoding, NewReader(text))

(***************************************************************************)
(* C1.  Round trip: for every node n built through Token, Hexadecimal,     *)
(* Base64 and List, strict Parse of n.String() returns no error and a tree *)
(* equal to n.                                                             *)
(***************************************************************************)
C1_RoundTrip ==
    (src.kind = "string" /\ Len(src.nodes) = 1 /\ e = LimitedEncoding /\ Called)
        => (First.err = NoErr /\ First.n = src.nodes[1])

(***************************************************************************)
(* C2.  A hex-string or base64-string may stand at any position of a list: *)
(* the text "(" e1 " " e2 ... ")" whose elements are tokens and strings,   *)
(* one of them a string, parses to the list of exactly those elements.     *)
(* (Base64 elements are taken without padding, so only the position of the *)
(* string is in question.)                                                 *)
(***************************************************************************)
C2_StringInList ==
    (/\ src.kind = "string" /\ Len(src.nodes) = 1 /\ Called
     /\ src.nodes[1].Kind = KindList
     /\ \A i \in 1..Len(src.nodes[1].List) :
           LET c == src.nodes[1].List[i] IN
           TokensOnly(c) \/ IsHex(c) \/ IsPlainBase64(c)
     /\ \E i \in 1..Len(src.nodes[1].List) :
           LET c == src.nodes[1].List[i] IN IsHex(c) \/ IsPlainBase64(c))
        => (First.err = NoErr /\ First.n = src.nodes[1])

(***************************************************************************)
(* C3.  Successive Parse calls on one scanner return the successive nodes: *)
(* over the text of the encodings of n1..nk, one space between them, the   *)
(* i-th call returns ni and no error, whatever the kind of node at each    *)
(* position (tokens, lists of tokens and hex-strings here).                *)
(***************************************************************************)
C3_SuccessiveNodes ==
    (/\ src.kind = "string"
     /\ \A i \in 1..Len(src.nodes) : TokensOnly(src.nodes[i]) \/ IsHex(src.nodes[i]))
        => \A i \in (1..Len(results)) \cap (1..Len(src.nodes)) :
              results[i].err = NoErr /\ results[i].n = src.nodes[i]

(***************************************************************************)
(* C4.  Length prefix: a hex- or base64-string of d decoded bytes written  *)
(* after the decimal h parses to the node of the un-prefixed string when   *)
(* d = h, and Parse returns ErrInvalidLengthPrefix and no node when d # h, *)
(* for h > d and for h < d alike.                                          *)
(***************************************************************************)
C4_LengthPrefix ==
    (/\ src.kind = "prefixed" /\ Called
     /\ IsHex(src.nodes[1]) \/ IsPlainBase64(src.nodes[1]))
        => IF Len(src.nodes[1].OctetString) = src.hint
           THEN First.err = NoErr /\ First.n = src.nodes[1]
           ELSE First.err = ErrInvalidLengthPrefix /\ First.n = NilNode

(***************************************************************************)
(* C5.  Odd hex digit count: '#', an odd number of hex digits, '#' parses  *)
(* with no error; the last digit is the high nibble of a final byte whose  *)
(* low nibble is 0 ("#6#" is the byte 0x60).                               *)
(***************************************************************************)
\* the digits between the two '#' of a text
HexBody(text) == SubSeq(text, 2, Len(text) - 1)

IsOddHexString(text) ==
    /\ Len(text) >= 3 /\ Len(text) % 2 = 1
    /\ text[1] = chHash /\ text[Len(text)] = chHash
    /\ \A i \in 2..(Len(text) - 1) : isHexadecimalRemainder(text[i])

\* the bytes the documentation gives an odd run of digits: a '0' is assumed
\* after the last digit
OddHexOctets(digits) ==
    [i \in 1..((Len(digits) + 1) \div 2) |->
        fromHexChar(digits[2 * i - 1]) * 16
        + (IF 2 * i <= Len(digits) THEN fromHexChar(digits[2 * i]) ELSE 0)]

C5_OddHexDigits ==
    (src.kind = "text" /\ Called /\ IsOddHexString(Text))
        => /\ First.err = NoErr
           /\ First.n = Node(KindHexadecimal, OddHexOctets(HexBody(Text)), << >>)

(***************************************************************************)
(* C6.  Base64 strings are standard padded base64: for every octet string  *)
(* b, also of a length not divisible by 3, the text "|" StdEncoding(b) "|" *)
(* parses to the Base64 node of payload b.                                 *)
(***************************************************************************)
C6_PaddedBase64 ==
    (/\ src.kind = "string" /\ Len(src.nodes) = 1 /\ Called
     /\ src.nodes[1].Kind = KindBase64)
        => (First.err = NoErr /\ First.n = src.nodes[1])

(***************************************************************************)
(* C7.  End of input in the middle of a node is ErrUnexpectedEOF: a text   *)
(* that ends inside an unclosed list, inside a hex- or base64-string, or   *)
(* after the digits of a length prefix makes Parse return ErrUnexpectedEOF *)
(* and no node.  (The node cut short is a string, with or without its      *)
(* prefix, or a list of tokens.)                                           *)
(***************************************************************************)
C7_EndOfInputInsideNode ==
    (/\ src.kind = "truncated" /\ Called
     /\ \/ IsHex(src.nodes[1]) \/ IsPlainBase64(src.nodes[1])
        \/ TokensOnly(src.nodes[1]))
        => (First.err = ErrUnexpectedEOF /\ First.n = NilNode)

(***************************************************************************)
(* C8.  Malformed list: a text whose list is opened and not closed before  *)
(* the end of input fails with ErrUnexpectedEOF, and a text whose first    *)
(* significant rune is ')' fails with ErrUnexpectedChar; the node returned *)
(* is nil in both cases.                                                   *)
(***************************************************************************)
\* the first rune of the text that strict parsing does not discard is ')'
RECURSIVE StartsWithClose(_)
StartsWithClose(text) ==
    /\ text # << >>
    /\ \/ text[1] = chRParen
       \/ /\ text[1] <= chSpace /\ text[1] \notin Newlines
          /\ StartsWithClose(Tail(text))

C8_MalformedList ==
    /\ (src.kind = "truncated" /\ Called /\ src.nodes[1].Kind = KindList)
          => (First.err = ErrUnexpectedEOF /\ First.n = NilNode)
    /\ (src.kind = "text" /\ Called /\ StartsWithClose(Text))
          => (First.err = ErrUnexpectedChar /\ First.n = NilNode)

(***************************************************************************)
(* C9.  Newlines depend on the mode.  In both readings the input holds a   *)
(* CR or LF inside its node: between the elements of a list or inside the  *)
(* body of a hex- or base64-string.                                        *)
(***************************************************************************)
Openers == {chLParen, chHash, chPipe}

Closers == {chRParen, chHash, chPipe}

\* the call read the whole of the text: a list ends behind its ')', a string
\* ends on its pushed-back terminator
ReadWhole(r, text) ==
    /\ r.err = NoErr
    /\ r.n # NilNode
    /\ r.s.pos = (IF r.n.Kind = KindList THEN Len(text) ELSE Len(text) - 1)

\* the text is one list or string with a CR or LF inside, and it parses
\* once its CR and LF are deleted
NewlineInsideRemoved(text) ==
    /\ HasNewline(text)
    /\ text[1] \in Openers
    /\ text[Len(text)] \in Closers
    /\ ReadWhole(StrictParse(Removed(text)), Removed(text))

\* the call that parses the text with spaces for its CR and LF succeeds and
\* reads beyond the place of the first CR or LF
ReadsThrough(r, text) ==
    /\ r.err = NoErr
    /\ r.n # NilNode
    /\ r.s.pos >= FirstNewline(text)

NewlineInside(text) ==
    /\ HasNewline(text)
    /\ ReadsThrough(StrictParse(Replaced(text)), text)

\* the node, the error and the cursor of two calls are the same
SameOutcome(res, r) == res.n = r.n /\ res.err = r.err /\ res.pos = r.s.pos

\* C9, as stated: strict Parse fails with ErrParseUnacceptableWhitespace,
\* and permissive Parse succeeds with the tree of the input without its CR
\* and LF.
C9_NewlinesRemoved ==
    (src.kind = "text" /\ Called /\ NewlineInsideRemoved(Text))
        => IF e = LimitedEncoding
           THEN First.err = ErrParseUnacceptableWhitespace /\ First.n = NilNode
           ELSE First.err = NoErr /\ First.n = StrictParse(Removed(Text)).n

\* C9, amended: a CR or LF that Parse has to read to complete the node makes
\* strict Parse fail with ErrParseUnacceptableWhitespace and no node, and
\* permissive Parse of any input has the outcome (node, error, cursor) of
\* strict Parse of the input with a space in place of every CR and LF.
C9_NewlinesAsSpaces ==
    (src.kind = "text" /\ Called)
        => IF e = LimitedEncoding
           THEN NewlineInside(Text)
                   => (First.err = ErrParseUnacceptableWhitespace /\ First.n = NilNode)
           ELSE SameOutcome(First, StrictParse(Replaced(Text)))

\* permissive Parse returned the list of the two tokens a newline separates
C9_Witness ==
    /\ src.kind = "text" /\ Called
    /\ e = FullEncoding
    /\ NewlineInside(Text)
    /\ First.err = NoErr
    /\ First.n.Kind = KindList
    /\ Len(First.n.List) = 2

(***************************************************************************)
(* C10.  A top-level token ends at a CR or LF without an error: strict     *)
(* Parse of a token immediately followed by CR or LF returns the Token     *)
(* node of the runes before the newline and no error.                      *)
(***************************************************************************)
\* the longest run of token runes a text starts with
RECURSIVE TokenRun(_)
TokenRun(text) ==
    IF text # << >> /\ isTokenRemainder(text[1])
    THEN << text[1] >> \o TokenRun(Tail(text))
    ELSE << >>

TokenThenNewline(text) ==
    /\ text # << >>
    /\ isTokenStart(text[1])
    /\ Len(TokenRun(text)) < Len(text)
    /\ text[Len(TokenRun(text)) + 1] \in Newlines

C10_TokenBeforeNewline ==
    (src.kind = "text" /\ Called /\ e = LimitedEncoding /\ TokenThenNewline(Text))
        => /\ First.err = NoErr
           /\ First.n = Node(KindToken, TokenRun(Text), << >>)

\* strict Parse returned the token that stands before a newline
C10_Witness ==
    /\ src.kind = "text" /\ Called
    /\ e = LimitedEncoding
    /\ TokenThenNewline(Text)
    /\ First.n.Kind = KindToken
    /\ First.pos = Len(First.n.OctetString)

(***************************************************************************)
(* C11.  ASCII only: in both modes, a rune above 0x7F that the parser      *)
(* reads makes Parse fail with ErrNotASCII and return no node, wherever it *)
(* stands: before the node, between the elements of a list, inside the     *)
(* body of a hex- or base64-string, or directly after a token.  (The rune  *)
(* is put into the encoding of a token, of a list of tokens before its     *)
(* last ')', or of a string before its terminator.)                        *)
(***************************************************************************)
\* the rune put in by ReadInserted
InsertedRune == Text[src.hint + 1]

\* the rune was put in before the last rune of the encoding
InsertedInside == src.hint < Len(String(src.nodes[1]))

C11_NotASCII ==
    (/\ src.kind = "inserted" /\ Called
     /\ InsertedRune > MaxASCII
     /\ \/ TokensOnly(src.nodes[1])
           /\ (src.nodes[1].Kind = KindToken \/ InsertedInside)
        \/ (IsHex(src.nodes[1]) \/ IsPlainBase64(src.nodes[1])) /\ InsertedInside)
        => (First.err = ErrNotASCII /\ First.n = NilNode)

(***************************************************************************)
(* C12.  Benign end of input: Parse of a text that is empty or made of     *)
(* discardable whitespace only returns no node and no error, and Parse of  *)
(* "()" returns a List node with no children, which is not the nil node.   *)
(***************************************************************************)
\* every rune of the text is whitespace the mode discards
OnlyWhitespace(enc, text) ==
    \A i \in 1..Len(text) :
        /\ text[i] <= chSpace
        /\ text[i] \in Newlines => enc = FullEncoding

C12_BenignEndOfInput ==
    (src.kind = "text" /\ Called)
        => /\ OnlyWhitespace(e, Text) => (First.n = NilNode /\ First.err = NoErr)
           /\ Text = << chLParen, chRParen >>
                 => /\ First.err = NoErr
                    /\ First.n # NilNode
                    /\ First.n.Kind = KindList
                    /\ First.n.List = << >>

\* Parse met the end of a text of several whitespace runes
C12_Witness ==
    /\ src.kind = "text" /\ Called
    /\ Len(Text) >= 2
    /\ OnlyWhitespace(e, Text)
    /\ First.n = NilNode /\ First.err = NoErr
    /\ First.pos = Len(Text)

(***************************************************************************)
(* C13.  No partial result: in both modes and for every input, a Parse     *)
(* call that returns an error returns the nil node, also when children or  *)
(* bytes were collected before the error.                                  *)
(***************************************************************************)
C13_NoPartialResult ==
    \A i \in 1..Len(results) :
        results[i].err # NoErr => results[i].n = NilNode

\* parseNode came back to Parse with an error and the list it had built
C13_Witness ==
    /\ Called
    /\ First.err = ErrUnexpectedEOF
    /\ First.n = NilNode
    /\ parseNode(e, NewReader(Text)).n.Kind = KindList
    /\ parseNode(e, NewReader(Text)).n.List # << >>

(***************************************************************************)
(* C14.  Token builder validation: Token(s) returns the Token node of      *)
(* payload s exactly when s is a token of the grammar (a token-start rune  *)
(* followed by token runes, so s is not empty); for every other s, the     *)
(* empty string included, it returns ErrInvalidTokenChar and the nil node, *)
(* and MustToken panics in exactly those cases.                            *)
(***************************************************************************)
IsToken(str) ==
    /\ str # << >>
    /\ isTokenStart(str[1])
    /\ \A i \in 2..Len(str) : isTokenRemainder(str[i])

C14_TokenValidation ==
    (pc = "built")
        => IF IsToken(built.arg)
           THEN /\ built.n = Node(KindToken, built.arg, << >>)
                /\ built.err = NoErr
                /\ built.panic = NoErr
           ELSE /\ built.n = NilNode
                /\ built.fn = "Token" => built.err = ErrInvalidTokenChar
                /\ built.fn = "MustToken" => built.panic = ErrInvalidTokenChar

(***************************************************************************)
(* C15.  Canonical list encoding: String() of a List node is "(", the      *)
(* encodings of its children with exactly one space between neighbours,    *)
(* ")"; no space leads, trails or is doubled; the empty list is "()" and a *)
(* Token is its bytes as they are.                                         *)
(***************************************************************************)
\* the encodings of the nodes, a space before every one but the first
RECURSIVE SpaceJoined(_)
SpaceJoined(ns) ==
    IF ns = << >> THEN << >>
    ELSE IF Len(ns) = 1 THEN String(ns[1])
    ELSE SpaceJoined(SubSeq(ns, 1, Len(ns) - 1)) \o << chSpace >> \o String(ns[Len(ns)])

\* every space of the text stands between two runes that are neither a
\* space nor the parenthesis that would make it leading or trailing
SpacesSeparate(text) ==
    \A i \in 1..Len(text) :
        text[i] = chSpace
            => /\ 1 < i /\ i < Len(text)
               /\ text[i - 1] \notin {chSpace, chLParen}
               /\ text[i + 1] \notin {chSpace, chRParen}

C15_CanonicalList ==
    (src.kind = "string" /\ Len(src.nodes) = 1)
        => /\ src.nodes[1].Kind = KindToken => Text = src.nodes[1].OctetString
           /\ src.nodes[1].Kind = KindList
                 => /\ Text = << chLParen >> \o SpaceJoined(src.nodes[1].List)
                                 \o << chRParen >>
                    /\ SpacesSeparate(Text)
           /\ src.nodes[1] = List(<< >>) => Text = << chLParen, chRParen >>

\* the encoding of a list of two children, one of them a list itself
C15_Witness ==
    /\ src.kind = "string" /\ Len(src.nodes) = 1
    /\ src.nodes[1].Kind = KindList
    /\ Len(src.nodes[1].List) = 2
    /\ src.nodes[1].List[2].Kind = KindList
    /\ \E i \in 1..Len(Text) : Text[i] = chSpace

(***************************************************************************)
(* C16.  Canonical hex form: a top-level hex-string with an even number of *)
(* digits in upper, lower or mixed case, with or without its correct       *)
(* length prefix, parses to its bytes, and String() of the result is '#',  *)
(* the same digits in lower case, '#', without a length prefix.            *)
(***************************************************************************)
ToLower(c) == IF c >= chUpA /\ c <= chUpZ THEN c + (chLoA - chUpA) ELSE c

\* the text from its first '#' on
RECURSIVE Unprefixed(_)
Unprefixed(text) ==
    IF text # << >> /\ text[1] # chHash THEN Unprefixed(Tail(text)) ELSE text

\* the text without the runes up to 0x20
Unspaced(text) == SelectSeq(text, LAMBDA c : c > chSpace)

Lowered(text) == [i \in 1..Len(text) |-> ToLower(text[i])]

C16_CanonicalHex ==
    (src.kind = "hex" /\ Called)
        => /\ First.err = NoErr
           /\ First.n.Kind = KindHexadecimal
           /\ String(First.n) = Lowered(Unspaced(Unprefixed(Text)))

\* a hex-string with a length prefix and an upper-case digit was parsed
C16_Witness ==
    /\ src.kind = "hex" /\ Called
    /\ src.hint >= 1
    /\ \E i \in 1..Len(Text) : Text[i] >= chUpA /\ Text[i] <= chUpF
    /\ \E i \in 1..Len(Text) : Text[i] >= chLoA /\ Text[i] <= chLoF
    /\ First.err = NoErr
    /\ Len(String(First.n)) = 2 + 2 * src.hint

(***************************************************************************)
(* C17.  Whitespace inside a hex-string: discardable whitespace (runes up  *)
(* to 0x20 other than CR and LF) at any places between the two '#' does    *)
(* not change the decoded bytes: the text parses to the node of the text   *)
(* without that whitespace; whitespace separates no octets.                *)
(***************************************************************************)
C17_HexWhitespace ==
    (src.kind = "hex" /\ Called)
        => /\ First.err = NoErr
           /\ First.n = src.nodes[1]
           /\ First.n = StrictParse(Unspaced(Text)).n

\* a hex-string with whitespace at two places, one of them inside an octet
C17_Witness ==
    /\ src.kind = "hex" /\ Called
    /\ src.hint = -1
    /\ Len(Text) >= 8
    /\ Text[3] <= chSpace
    /\ Text[Len(Text) - 1] <= chSpace
    /\ Text[4] > chSpace
    /\ First.err = NoErr
    /\ Len(First.n.OctetString) = 2

(***************************************************************************)
(* C18.  Idempotent encode: for every node n built through the builder,    *)
(* String() of the node that Parse returns for String(n) is String(n).     *)
(***************************************************************************)
C18_IdempotentEncode ==
    (src.kind = "string" /\ Len(src.nodes) = 1 /\ Called)
        => String(First.n) = Text

(***************************************************************************)
(* C19.  A ')' after the top-level node.  The text is the encoding of a    *)
(* built node directly followed by ')'.                                    *)
(***************************************************************************)
\* ReadInserted put a ')' behind a complete, non-empty encoding
ClosedTwice ==
    /\ src.kind = "inserted"
    /\ src.hint = Len(String(src.nodes[1]))
    /\ src.hint > 0
    /\ InsertedRune = chRParen

\* C19, as stated: the Parse call that reads the node returns an error.
C19_TrailingCloseFails ==
    (ClosedTwice /\ Called) => First.err # NoErr

\* C19, amended: Parse returns a single top-level node and leaves what
\* follows it unread; the ')' behind the node does not change what the call
\* returns, and the next Parse call on the scanner returns ErrUnexpectedChar
\* and no node.
C19_TrailingCloseNextCall ==
    (ClosedTwice /\ Called)
        => /\ SameOutcome(First, Parse(e, NewReader(String(src.nodes[1]))))
           /\ Len(results) >= 2
                 => (results[2].err = ErrUnexpectedChar /\ results[2].n = NilNode)

\* the first call returned the list, the second call met the ')'
C19_Witness ==
    /\ ClosedTwice
    /\ Len(results) = 2
    /\ First.err = NoErr
    /\ First.n = src.nodes[1]
    /\ First.n.Kind = KindList
    /\ results[2].err = ErrUnexpectedChar
    /\ results[2].pos = Len(Text)

(***************************************************************************)
(* C20.  Line-safe output: String() of every tree built through Token,     *)
(* MustToken, Hexadecimal, Base64 and List, whatever the octets of its     *)
(* strings (0x0A, 0x0D and 0xFF among them), holds only 7-bit ASCII runes  *)
(* and neither CR nor LF.                                                  *)
(***************************************************************************)
LineSafe(text) ==
    \A i \in 1..Len(text) : text[i] <= MaxASCII /\ text[i] \notin Newlines

C20_LineSafeOutput ==
    /\ src.kind = "string" => LineSafe(Text)
    /\ pc = "built" => LineSafe(String(built.n))

\* the encoding of a hex-string of the octets LF, CR and 0xFF
C20_Witness ==
    /\ src.kind = "string" /\ Len(src.nodes) = 1
    /\ src.nodes[1].Kind = KindHexadecimal
    /\ src.nodes[1].OctetString = << chLF, chCR, 255 >>
    /\ Len(Text) = 8
    /\ LineSafe(Text)

(***************************************************************************)
(* C21.  Token scanning leaves the delimiter unread: for a text that       *)
(* starts with a token, the first Parse returns the token of the longest   *)
(* run of token runes and no error, the cursor stands directly after that  *)
(* run, and the next read returns the rune that ended the token; a token   *)
(* that runs to the end of the input is returned all the same, without an  *)
(* error from a pushback, and the next read is the end of the input.       *)
(***************************************************************************)
StartsWithToken(text) == text # << >> /\ isTokenStart(text[1])

C21_DelimiterUnread ==
    (Called /\ StartsWithToken(Text))
        => /\ First.err = NoErr
           /\ First.n = Node(KindToken, TokenRun(Text), << >>)
           /\ First.pos = Len(TokenRun(Text))
           /\ Len(results) = 1 =>
                 IF First.pos < Len(Text)
                 THEN /\ ReadRune(s).err = NoErr
                      /\ ReadRune(s).r = Text[First.pos + 1]
                      /\ ~isTokenRemainder(ReadRune(s).r)
                 ELSE ReadRune(s).err = EOF

\* Parse returned a token of several runes that a ')' ended, and the ')' is
\* the next rune to read
C21_Witness ==
    /\ Len(results) = 1
    /\ StartsWithToken(Text)
    /\ First.n.Kind = KindToken
    /\ Len(First.n.OctetString) >= 2
    /\ First.pos < Len(Text)
    /\ ReadRune(s).r = chRParen

C23_PushbackProtocol ==
    \A i \in 1..Len(results) : results[i].err # ErrUnreadRune

\* Parse returned a node after a pushback: the scanner's last operation was
\* no read, and the cursor stands inside the text
C23_Witness ==
    /\ Len(results) = 1
    /\ First.err = NoErr
    /\ First.n # NilNode
    /\ ~s.prev
    /\ First.pos > 0
    /\ First.pos < Len(Text)

(***************************************************************************)
(* C24.  List structure and order: for a text made of tokens and           *)
(* parentheses, Parse returns the list tree with one child per token or    *)
(* nested list, in the order of the text, whatever the amount of           *)
(* discardable whitespace between the elements, none included where a      *)
(* parenthesis delimits.  "(abc (def ghi z/a))" gives a list of the token  *)
(* abc and a list of three tokens, "(() () () ( () () ))" a list of three  *)
(* empty lists and a list of two empty lists.                              *)
(***************************************************************************)
Tok(str) == Node(KindToken, str, << >>)

\* (abc (def ghi z/a))
ExampleNested ==
    << 40, 97, 98, 99, 32, 40, 100, 101, 102, 32, 103, 104, 105, 32,
       122, 47, 97, 41, 41 >>

ExampleNestedTree ==
    List(<< Tok(<< 97, 98, 99 >>),
            List(<< Tok(<< 100, 101, 102 >>), Tok(<< 103, 104, 105 >>),
                    Tok(<< 122, 47, 97 >>) >>) >>)

\* (() () () ( () () ))
ExampleEmpties ==
    << 40, 40, 41, 32, 40, 41, 32, 40, 41, 32, 40, 32, 40, 41, 32, 40, 41,
       32, 41, 41 >>

ExampleEmptiesTree ==
    List(<< List(<< >>), List(<< >>), List(<< >>),
            List(<< List(<< >>), List(<< >>) >>) >>)

C24_ListStructure ==
    /\ (src.kind = "loose" /\ Called)
          => /\ First.err = NoErr
             /\ First.n = src.nodes[1]
             /\ First.pos = Len(Text)
    /\ (src.kind = "text" /\ Called /\ Text = ExampleNested)
          => (First.err = NoErr /\ First.n = ExampleNestedTree)
    /\ (src.kind = "text" /\ Called /\ Text = ExampleEmpties)
          => (First.err = NoErr /\ First.n = ExampleEmptiesTree)

\* Parse returned a list that holds a list of a token and a list, read from
\* a text without any whitespace: ((a(a)))
C24_Witness ==
    /\ src.kind = "loose" /\ Called
    /\ src.hint = 0
    /\ First.n.Kind = KindList
    /\ Len(First.n.List) = 1
    /\ First.n.List[1].Kind = KindList
    /\ Len(First.n.List[1].List) = 2
    /\ First.n.List[1].List[1].Kind = KindToken
    /\ First.n.List[1].List[2].Kind = KindList
    /\ Len(First.n.List[1].List[2].List) = 1

(***************************************************************************)
(* C25.  Parsed tokens are valid tokens: every Token node at any depth of  *)
(* a tree Parse returns, in either mode and for any input, has a payload   *)
(* that is not empty, starts with a token-start rune and goes on with      *)
(* token runes only, so that Token of that payload succeeds and returns    *)
(* the same node.                                                          *)
(***************************************************************************)
RECURSIVE AllTokensValid(_)
AllTokensValid(n) ==
    IF n = NilNode THEN TRUE
    ELSE IF n.Kind = KindToken
         THEN /\ IsToken(n.OctetString)
              /\ Token(n.OctetString).err = NoErr
              /\ Token(n.OctetString).n = n
    ELSE IF n.Kind = KindList
         THEN \A i \in 1..Len(n.List) : AllTokensValid(n.List[i])
    ELSE TRUE

C25_ParsedTokensValid ==
    \A i \in 1..Len(results) : AllTokensValid(results[i].n)

\* Parse returned a list that holds a token next to a list that holds a token
C25_Witness ==
    /\ src.kind = "text" /\ Called
    /\ First.n # NilNode
    /\ First.n.Kind = KindList
    /\ Len(First.n.List) = 2
    /\ First.n.List[1].Kind = KindToken
    /\ First.n.List[2].Kind = KindList
    /\ Len(First.n.List[2].List) >= 1
    /\ First.n.List[2].List[1].Kind = KindToken
    /\ AllTokensValid(First.n)

(***************************************************************************)
(* C26.  Payload immutability after construction: once Hexadecimal(s) or   *)
(* Base64(s) returned the node n, a later write of the caller to the slice *)
(* s leaves n.OctetString and n.String() as they were, and a later write   *)
(* to the slice of children given to List leaves the list node as it was.  *)
(***************************************************************************)
C26_PayloadImmutable ==
    (pc = "written")
        => /\ built.n = src.nodes[1]
           /\ String(built.n) = String(src.nodes[1])

(***************************************************************************)
(* C27.  Go encoder and Lua decoder agree: for every tree n built from     *)
(* MustList, MustToken and MustHexadecimal, a token or a hex-string at the *)
(* top level included, sexp_decode(n.String()) returns no error and the    *)
(* table that is structurally equal to n: the children of a list in their  *)
(* order, the text of a token, the bytes of a hex-string.                  *)
(***************************************************************************)
\* a tree of non-empty tokens, hex-strings and lists
RECURSIVE LuaBuilt(_)
LuaBuilt(n) ==
    \/ n.Kind = KindToken /\ n.OctetString # << >>
    \/ n.Kind = KindHexadecimal
    \/ n.Kind = KindList /\ \A i \in 1..Len(n.List) : LuaBuilt(n.List[i])

C27_LuaDecoderAgrees ==
    (src.kind = "string" /\ Len(src.nodes) = 1 /\ LuaBuilt(src.nodes[1]))
        => /\ sexp_decode(Text).err = "nil"
           /\ sexp_decode(Text).n = expectTable(src.nodes[1])

(***************************************************************************)
(* C28.  Round trip of lists and tokens: for every tree n built through    *)
(* List and Token with non-empty tokens only (no hex- or base64-string at  *)
(* any depth), strict Parse of n.String() returns no error and a tree      *)
(* equal to n.                                                             *)
(***************************************************************************)
C28_TokenListRoundTrip ==
    (/\ src.kind = "string" /\ Len(src.nodes) = 1
     /\ TokensOnly(src.nodes[1])
     /\ e = LimitedEncoding /\ Called)
        => /\ First.err = NoErr
           /\ First.n = src.nodes[1]
           /\ First.pos = Len(Text)

\* strict Parse returned the list of two children, a token and a list of a
\* token, that the text was encoded from
C28_Witness ==
    /\ src.kind = "string" /\ Len(src.nodes) = 1
    /\ e = LimitedEncoding /\ Called
    /\ TokensOnly(src.nodes[1])
    /\ First.n = src.nodes[1]
    /\ First.n.Kind = KindList
    /\ Len(First.n.List) = 2
    /\ First.n.List[1].Kind = KindToken
    /\ First.n.List[2].Kind = KindList
    /\ Len(First.n.List[2].List) = 1

(***************************************************************************)
(* C29.  The mode only affects newlines: for every text that holds neither *)
(* CR nor LF, Parse of the strict encoding and Parse of the permissive     *)
(* encoding return the same node, the same error and leave the cursor at   *)
(* the same place.                                                         *)
(***************************************************************************)
\* (stated on the strict call; the permissive call of the same text is the
\* other side of the same comparison)
C29_ModeOnlyNewlines ==
    (Len(results) = 1 /\ e = LimitedEncoding /\ ~HasNewline(Text))
        => SameOutcome(First, Parse(FullEncoding, NewReader(Text)))

\* Parse read a list through tabs, and the text holds no newline
C29_Witness ==
    /\ src.kind = "loose" /\ Len(results) = 1
    /\ e = LimitedEncoding
    /\ src.hint >= 1
    /\ Text[1] = chTab
    /\ ~HasNewline(Text)
    /\ First.err = NoErr
    /\ First.n.Kind = KindList
    /\ Len(First.n.List) >= 1

(***************************************************************************)
(* C30.  Termination and progress: every parseNode invocation that returns *)
(* a node or the end-of-list signal leaves the cursor at least one rune    *)
(* behind the place where it started, the pushback counted; so does every  *)
(* Parse call that returns a node or meets a ')' at the outer scope, and   *)
(* no call moves the cursor back.  Each turn of parseList's loop therefore *)
(* consumes a rune or ends the loop, and Parse terminates on every finite  *)
(* text in both modes, texts of repeated '#' or '|' included.              *)
(***************************************************************************)
\* the scanner over the text with p runes consumed, as parseList leaves it
\* before it calls parseNode
ScannerAt(text, p) == [in |-> text, pos |-> p, prev |-> FALSE]

\* r is what parseNode returned when started with p runes consumed
Advanced(p, r) == (r.n # NilNode \/ r.listEnd) => r.s.pos > p

\* the places inside the text where parseNode is started: every place of a
\* test input, of an encoding of built nodes (with or without a rune put
\* in), of a list written with whitespace and of a text with digits.  A text
\* drawn rune by rune from Alphabet has none: each of its suffixes is such a
\* text as well and the parser only reads forward, so the Parse calls on
\* the suffix are the invocations inside the text.  Of a single string and
\* of a cut encoding the Parse calls are checked.
StartPlaces ==
    IF src.kind \in {"string", "inserted", "loose", "digits"}
          \/ Text \in SampleTexts
    THEN 0..Len(Text) ELSE { }

\* where the i-th Parse call on the scanner started
StartOf(i) == IF i = 1 THEN 0 ELSE results[i - 1].pos

C30_Progress ==
    /\ \A i \in 1..Len(results) :
          /\ (results[i].n # NilNode \/ results[i].err = ErrUnexpectedChar)
                => results[i].pos > StartOf(i)
          /\ results[i].pos >= StartOf(i)
          /\ results[i].pos <= Len(Text)
    /\ (pc = "ready" /\ results = << >>)
          => \A p \in StartPlaces :
                Advanced(p, parseNode(e, ScannerAt(Text, p)))

\* two Parse calls on a text of '#' only: each returned an empty hex-string
\* and moved the cursor by one rune
C30_Witness ==
    /\ src.kind = "text"
    /\ Len(results) = 2
    /\ Len(Text) >= 3
    /\ \A i \in 1..Len(Text) : Text[i] = chHash
    /\ results[1].n.Kind = KindHexadecimal
    /\ results[2].n.Kind = KindHexadecimal
    /\ results[1].pos = 1
    /\ results[2].pos = 2

=============================================================================
